---------------------------- MODULE Spec2Model ----------------------------
(***************************************************************************)
(* Segment editing, flattening and pagination of the court-record          *)
(* transcriber (src/app/recording/[id]/page.tsx) and the numbering of the  *)
(* server-side export renderers (src/app/api/recordings/[id]/search/       *)
(* route.ts).                                                              *)
(*                                                                         *)
(* Strings are sequences of one-character strings, so that lengths,        *)
(* substring, split(' ') and join(' ') are computed as the code computes   *)
(* them.                                                                   *)
(***************************************************************************)
EXTENDS Integers, Sequences, FiniteSets, TLC

VARIABLES utterances, utteranceEdits, lastOp, rendered,
          db, jobs, inflight, lastRequest

vars == <<utterances, utteranceEdits, lastOp, rendered,
          db, jobs, inflight, lastRequest>>

\* the state of the transcript page and of the export dialog
pageVars == <<utterances, utteranceEdits, lastOp, rendered>>

\* the state of the server: database, Case.dev jobs, handlers under way
serverVars == <<db, jobs, inflight, lastRequest>>

\* null, the value of a speaker label that was not given
NULL == <<"null">>

\* the value of a property that is not set
UNDEFINED == <<"undefined">>

\* the utterance id recorded when no handler of an utterance has run
NoUtterance == "none"

(***************************************************************************)
(* String helpers                                                          *)
(***************************************************************************)
SP == " "

\* n copies of the character c
Rep(c, n) == [i \in 1..n |-> c]

\* String.prototype.substring(from, to) with 0-based, end-exclusive offsets
Substring(s, from, to) == SubSeq(s, from + 1, to)

\* the elements of a sequence of sequences, concatenated
RECURSIVE Concat(_)
Concat(ss) == IF ss = <<>> THEN <<>> ELSE Head(ss) \o Concat(Tail(ss))

\* Array.prototype.join(' ')
RECURSIVE JoinSpace(_)
JoinSpace(ws) ==
    IF ws = <<>> THEN <<>>
    ELSE IF Len(ws) = 1 THEN ws[1]
    ELSE ws[1] \o <<SP>> \o JoinSpace(Tail(ws))

\* String.prototype.split(' '): the pieces between single spaces; n spaces
\* always give n + 1 pieces, some of them empty when spaces are adjacent or
\* at an end of the string. SplitFrom gives the pieces after position p.
RECURSIVE SplitFrom(_, _)
SplitFrom(s, p) ==
    IF \E q \in (p + 1)..Len(s) : s[q] = SP
    THEN LET q == CHOOSE q \in (p + 1)..Len(s) :
                    s[q] = SP /\ \A r \in (p + 1)..(q - 1) : s[r] # SP
         IN  <<SubSeq(s, p + 1, q - 1)>> \o SplitFrom(s, q)
    ELSE <<SubSeq(s, p + 1, Len(s))>>

SplitSpace(s) == SplitFrom(s, 0)

(***************************************************************************)
(* Transcript data (RecordingData.utterances, RecordingData.speakerLabels) *)
(***************************************************************************)
Speakers == {"A", "B"}

\* data.speakerLabels: speaker B has been given a display label
speakerLabels == <<[speakerId |-> "B", label |-> <<"J", "u", "d", "g", "e">>]>>

\* a JavaScript string is truthy when it is neither null nor empty
Truthy(s) == s # NULL /\ s # <<>>

\* an utterance row of the database
Utterance(id, speaker, text, startMs, endMs, sequenceIndex) ==
    [id |-> id, speaker |-> speaker, speakerLabel |-> NULL, text |-> text,
     startMs |-> startMs, endMs |-> endMs, sequenceIndex |-> sequenceIndex]

\* the rows are handed on in the order they are stored in
OrderBySequenceIndex_AsStored(rows) == rows

\* orderBy asc(utterances.sequenceIndex)
RECURSIVE OrderBySequenceIndex(_)
OrderBySequenceIndex(rows) ==
    IF rows = <<>> THEN <<>>
    ELSE LET rest == OrderBySequenceIndex(Tail(rows))
             row == Head(rows)
         IN  SelectSeq(rest, LAMBDA r : r.sequenceIndex < row.sequenceIndex)
             \o <<row>>
             \o SelectSeq(rest, LAMBDA r : r.sequenceIndex >= row.sequenceIndex)

\* GET /api/recordings/[id], speakerLabelMap[speaker]: the label stored for
\* the speaker, NULL for a speaker without one
speakerLabelMap(speaker) ==
    LET hits == {i \in 1..Len(speakerLabels) : speakerLabels[i].speakerId = speaker}
    IN  IF hits = {} THEN NULL
        ELSE speakerLabels[CHOOSE i \in hits : \A j \in hits : j <= i].label

\* GET /api/recordings/[id]: the utterances of the response, in ascending
\* sequenceIndex and with the stored speaker labels applied
utterancesWithLabels(rows) ==
    LET recordingUtterances == OrderBySequenceIndex(rows)
    IN  [k \in 1..Len(recordingUtterances) |->
            [recordingUtterances[k] EXCEPT !.speakerLabel =
                IF Truthy(speakerLabelMap(recordingUtterances[k].speaker))
                THEN speakerLabelMap(recordingUtterances[k].speaker)
                ELSE @]]

\* the row of a one-utterance transcript: "ab c" spoken by A
W1 == Utterance("u1", "A", <<"a", "b", SP, "c">>, 1000, 3000, 0)

\* the rows of two-utterance transcripts: "a b" spoken by A, then "cd" spoken
\* by A or by B
U1 == Utterance("u1", "A", <<"a", SP, "b">>, 1000, 3000, 0)
U2a == Utterance("u2", "A", <<"c", "d">>, 3000, 4000, 1)
U2b == Utterance("u2", "B", <<"c", "d">>, 3000, 4000, 1)

\* the transcripts the editing session may be opened on, as the server
\* returns them; the rows of the second one are stored in reverse order
Transcripts ==
    { utterancesWithLabels(<<>>), utterancesWithLabels(<<W1>>),
      utterancesWithLabels(<<U2a, U1>>), utterancesWithLabels(<<U1, U2b>>) }

\* an utterance id that no transcript contains
Ghost == "ghost"

UtteranceIds == {"u1", "u2"}

\* handlePartialSpeakerChange is tried with offsets -1..MaxOffset (the longest
\* text of Transcripts has 4 characters), the per-segment handlers with
\* segment indices 0..MaxSegIndex
MaxOffset == 5
MaxSegIndex == 3

\* an id the transcript does not hold is resolved to the first utterance
FindUtterance_FirstForUnknown(utteranceId) ==
    IF \E i \in 1..Len(utterances) : utterances[i].id = utteranceId
    THEN CHOOSE i \in 1..Len(utterances) : utterances[i].id = utteranceId
    ELSE IF Len(utterances) > 0 THEN 1 ELSE 0

\* data.utterances.find(u => u.id === utteranceId): the index, 0 for undefined
FindUtterance(utteranceId) ==
    IF \E i \in 1..Len(utterances) : utterances[i].id = utteranceId
    THEN CHOOSE i \in 1..Len(utterances) :
            /\ utterances[i].id = utteranceId
            /\ \A j \in 1..(i - 1) : utterances[j].id # utteranceId
    ELSE 0

(***************************************************************************)
(* Edit store: utteranceEdits is an array of {utteranceId, segments}       *)
(***************************************************************************)
\* prev.find(e => e.utteranceId === utteranceId): the index, 0 for undefined
FindEdit(edits, utteranceId) ==
    IF \E i \in 1..Len(edits) : edits[i].utteranceId = utteranceId
    THEN CHOOSE i \in 1..Len(edits) :
            /\ edits[i].utteranceId = utteranceId
            /\ \A j \in 1..(i - 1) : edits[j].utteranceId # utteranceId
    ELSE 0

\* the filter removes nothing
FilterOut_KeepsAll(edits, utteranceId) == edits

\* prev.filter(e => e.utteranceId !== utteranceId)
FilterOut(edits, utteranceId) ==
    SelectSeq(edits, LAMBDA e : e.utteranceId # utteranceId)

\* the single segment an unedited utterance is shown as
DefaultSegments(utterance) ==
    <<[text |-> utterance.text, speaker |-> utterance.speaker,
       speakerLabel |-> utterance.speakerLabel,
       startCharIndex |-> 0, endCharIndex |-> Len(utterance.text)]>>

\* getUtteranceSegments: the edit's segments if there is an edit
getUtteranceSegments(utterance) ==
    LET i == FindEdit(utteranceEdits, utterance.id)
    IN  IF i # 0 THEN utteranceEdits[i].segments ELSE DefaultSegments(utterance)

\* the badge "n edits"
editCount == Len(utteranceEdits)

\* the export dialog has not computed its preview yet
NotRendered ==
    [ran |-> FALSE, again |-> FALSE, segments |-> <<>>, edits |-> <<>>,
     lines |-> <<>>, pages |-> <<>>]

(***************************************************************************)
(* The processing pipeline of one recording: the process route, the        *)
(* Case.dev jobs and the two webhooks                                      *)
(***************************************************************************)
\* a job id column that is null
NoJob == 0

\* at most MaxJobs Case.dev jobs are created for the recording, and at most
\* MaxTranscripts transcripts are inserted
MaxJobs == 3
MaxTranscripts == 2

\* POST /api/recordings stores the lower-cased file extension
Formats == {"ftr", "mp3"}

\* the utterances of the finished transcription: "a b" by A, "cd" by B
transcriptUtterances ==
    << [speaker |-> "A", text |-> <<"a", SP, "b">>, start |-> 1000, end |-> 3000],
       [speaker |-> "B", text |-> <<"c", "d">>, start |-> 3000, end |-> 4000] >>

\* the recording row POST /api/recordings inserts
NewRecording(extension) ==
    [id |-> "r1", originalFormat |-> extension, status |-> "uploading",
     convertJobId |-> NoJob, transcriptionJobId |-> NoJob]

\* a job the Convert or the Voice API has accepted
NewJob(kind) == [kind |-> kind, status |-> "processing", outputUrl |-> FALSE]

\* no handler of the recording is between two of its awaits
Idle == [convert |-> "idle", transcribe |-> "idle", poll |-> "idle"]

\* the handler that ran last, the job status it was given or fetched, and
\* whether it took one of its failure branches
Request(handler, status, failed) ==
    [handler |-> handler, status |-> status, failed |-> failed]

\* every recording is taken for a plain audio file
isFTR_Never(recording) == FALSE

\* const isFTR = recording.originalFormat.toLowerCase() === 'ftr'
isFTR(recording) == recording.originalFormat = "ftr"

\* db.insert(transcripts) and db.insert(utterances) of the utterance
\* records, with fresh ids and sequenceIndex: index
InsertTranscript(d, recording) ==
    LET transcriptId == Len(d.transcripts) + 1
        utteranceRecords ==
          [k \in 1..Len(transcriptUtterances) |->
              [id |-> Len(d.utterances) + k,
               transcriptId |-> transcriptId,
               recordingId |-> recording.id,
               speaker |-> transcriptUtterances[k].speaker,
               text |-> transcriptUtterances[k].text,
               startMs |-> transcriptUtterances[k].start,
               endMs |-> transcriptUtterances[k].end,
               sequenceIndex |-> k - 1]]
    IN  [d EXCEPT !.transcripts = Append(@, [id |-> transcriptId,
                                             recordingId |-> recording.id]),
                  !.utterances = @ \o utteranceRecords]

\* db.update(recordings).set({status})
SetStatus(d, status) == [d EXCEPT !.recordings.status = status]

\* POST /api/recordings/[id]/process; ok is whether the Case.dev call
\* (convertFTR or createTranscription) succeeds
processPOST(ok) ==
    /\ ok => Len(jobs) < MaxJobs
    /\ LET recording == db.recordings
       IN  IF isFTR(recording)
           THEN IF ok
                THEN /\ jobs' = Append(jobs, NewJob("convert"))
                     /\ db' = [db EXCEPT !.recordings.convertJobId = Len(jobs) + 1,
                                         !.recordings.status = "converting"]
                ELSE /\ jobs' = jobs
                     /\ db' = SetStatus(db, "failed")
           ELSE IF ok
                THEN /\ jobs' = Append(jobs, NewJob("transcription"))
                     /\ db' = [db EXCEPT !.recordings.transcriptionJobId = Len(jobs) + 1,
                                         !.recordings.status = "transcribing"]
                ELSE /\ jobs' = jobs
                     /\ db' = SetStatus(db, "failed")
    /\ lastRequest' = Request("POST process", "none", ~ok)
    /\ UNCHANGED <<inflight, pageVars>>

\* the Convert or the Voice API finishes a job; a finished conversion may
\* lack an output URL
casedevJob(job_id, status, outputUrl) ==
    /\ job_id \in 1..Len(jobs)
    /\ jobs[job_id].status = "processing"
    /\ status \in (IF jobs[job_id].kind = "convert"
                   THEN {"completed", "failed"} ELSE {"completed", "error"})
    /\ outputUrl => (jobs[job_id].kind = "convert" /\ status = "completed")
    /\ jobs' = [jobs EXCEPT ![job_id].status = status,
                            ![job_id].outputUrl = outputUrl]
    /\ UNCHANGED <<db, inflight, lastRequest, pageVars>>

\* POST /api/webhooks/convert for a finished conversion, up to the update
\* that follows the status
convertWebhook(job_id) ==
    /\ inflight.convert = "idle"
    /\ job_id \in 1..Len(jobs)
    /\ jobs[job_id].kind = "convert"
    /\ jobs[job_id].status \in {"completed", "failed"}
    /\ LET status == jobs[job_id].status
           audioUrl == jobs[job_id].outputUrl
       IN  IF db.recordings.convertJobId # job_id
           THEN /\ lastRequest' = Request("webhooks/convert", status, FALSE)
                /\ UNCHANGED <<db, inflight>>
           ELSE IF status = "completed" /\ ~audioUrl
           THEN /\ db' = SetStatus(db, "failed")
                /\ lastRequest' = Request("webhooks/convert", status, TRUE)
                /\ UNCHANGED inflight
           ELSE IF status = "completed"
           THEN /\ db' = SetStatus(db, "transcribing")
                /\ inflight' = [inflight EXCEPT !.convert = "createTranscription"]
                /\ lastRequest' = Request("webhooks/convert", status, FALSE)
           ELSE /\ db' = SetStatus(db, "failed")
                /\ lastRequest' = Request("webhooks/convert", status, TRUE)
                /\ UNCHANGED inflight
    /\ UNCHANGED <<jobs, pageVars>>

\* POST /api/webhooks/convert, "Trigger transcription"; ok is whether
\* createTranscription succeeds
convertWebhookTranscribe(ok) ==
    /\ inflight.convert = "createTranscription"
    /\ ok => Len(jobs) < MaxJobs
    /\ IF ok
       THEN /\ jobs' = Append(jobs, NewJob("transcription"))
            /\ db' = [db EXCEPT !.recordings.transcriptionJobId = Len(jobs) + 1]
       ELSE /\ jobs' = jobs
            /\ db' = SetStatus(db, "failed")
    /\ inflight' = [inflight EXCEPT !.convert = "idle"]
    /\ lastRequest' = Request("webhooks/convert", "completed", ~ok)
    /\ UNCHANGED pageVars

\* POST /api/webhooks/transcribe for a finished transcription, up to the
\* inserts of the transcript and of its utterances
transcribeWebhook(jobId) ==
    /\ inflight.transcribe = "idle"
    /\ jobId \in 1..Len(jobs)
    /\ jobs[jobId].kind = "transcription"
    /\ jobs[jobId].status \in {"completed", "error"}
    /\ LET status == jobs[jobId].status
           recording == db.recordings
       IN  IF recording.transcriptionJobId # jobId
           THEN /\ lastRequest' = Request("webhooks/transcribe", status, FALSE)
                /\ UNCHANGED <<db, inflight>>
           ELSE IF status = "completed"
           THEN /\ Len(db.transcripts) < MaxTranscripts
                /\ db' = InsertTranscript(db, recording)
                /\ inflight' = [inflight EXCEPT !.transcribe = "update"]
                /\ lastRequest' = Request("webhooks/transcribe", status, FALSE)
           ELSE /\ db' = SetStatus(db, "failed")
                /\ lastRequest' = Request("webhooks/transcribe", status, TRUE)
                /\ UNCHANGED inflight
    /\ UNCHANGED <<jobs, pageVars>>

\* POST /api/webhooks/transcribe, "Update recording status"
transcribeWebhookUpdate ==
    /\ inflight.transcribe = "update"
    /\ db' = SetStatus(db, "completed")
    /\ inflight' = [inflight EXCEPT !.transcribe = "idle"]
    /\ lastRequest' = Request("webhooks/transcribe", "completed", FALSE)
    /\ UNCHANGED <<jobs, pageVars>>

\* GET /api/recordings/[id]/process, up to "Check if transcript already
\* exists"
processGET ==
    /\ inflight.poll = "idle"
    /\ LET recording == db.recordings
           jobId == recording.transcriptionJobId
           status == IF jobId = NoJob THEN "none" ELSE jobs[jobId].status
       IN  /\ inflight' =
                IF status = "completed" /\ recording.status = "transcribing"
                THEN [inflight EXCEPT !.poll =
                        IF db.transcripts = <<>> THEN "insert" ELSE "update"]
                ELSE inflight
           /\ lastRequest' = Request("GET process", status, FALSE)
    /\ UNCHANGED <<db, jobs, pageVars>>

\* GET /api/recordings/[id]/process, "Create transcript record" and "Create
\* utterance records"
processGETInsert ==
    /\ inflight.poll = "insert"
    /\ Len(db.transcripts) < MaxTranscripts
    /\ db' = InsertTranscript(db, db.recordings)
    /\ inflight' = [inflight EXCEPT !.poll = "update"]
    /\ lastRequest' = Request("GET process", "completed", FALSE)
    /\ UNCHANGED <<jobs, pageVars>>

\* GET /api/recordings/[id]/process, "Update recording status"
processGETUpdate ==
    /\ inflight.poll = "update"
    /\ db' = SetStatus(db, "completed")
    /\ inflight' = [inflight EXCEPT !.poll = "idle"]
    /\ lastRequest' = Request("GET process", "completed", FALSE)
    /\ UNCHANGED <<jobs, pageVars>>

\* the server once the pipeline of an audio recording has run through: the
\* state the transcript page is opened in
Transcribed ==
    /\ db = SetStatus(
              InsertTranscript(
                 [recordings |-> [NewRecording("mp3") EXCEPT !.transcriptionJobId = 1],
                  transcripts |-> <<>>, utterances |-> <<>>],
                 NewRecording("mp3")),
              "completed")
    /\ jobs = <<[NewJob("transcription") EXCEPT !.status = "completed"]>>
    /\ inflight = Idle
    /\ lastRequest = Request("webhooks/transcribe", "completed", FALSE)

Init ==
    /\ utterances \in Transcripts
    /\ utteranceEdits = <<>>
    /\ lastOp = [op |-> "init", utteranceId |-> NoUtterance, prevSegs |-> 0 - 1]
    /\ rendered = NotRendered
    /\ Transcribed

\* number of segments of the edit of utteranceId, -1 when there is no edit
SegCount(edits, utteranceId) ==
    LET i == FindEdit(edits, utteranceId)
    IN  IF i = 0 THEN 0 - 1 ELSE Len(edits[i].segments)

\* the handler that ran last, the utterance it was given and the number of
\* segments that utterance's edit had when it was called
Op(name, utteranceId, newSpeaker) ==
    [op |-> name, utteranceId |-> utteranceId,
     prevSegs |-> SegCount(utteranceEdits, utteranceId)]

Max(a, b) == IF a >= b THEN a ELSE b
Min(a, b) == IF a <= b THEN a ELSE b

\* handleSelectExisting: the label handed to the handlers with a speaker id
LabelFor(speaker) ==
    IF \E i \in 1..Len(speakerLabels) : speakerLabels[i].speakerId = speaker
    THEN (CHOOSE l \in {speakerLabels[i] : i \in 1..Len(speakerLabels)} :
            l.speakerId = speaker).label
    ELSE NULL

\* handlePartialSpeakerChange, "Part before selection (if any)"
BeforePart(segment, segmentStart, overlapStart) ==
    IF overlapStart > segmentStart
    THEN <<[text |-> Substring(segment.text, 0, overlapStart - segmentStart),
            speaker |-> segment.speaker,
            speakerLabel |-> segment.speakerLabel,
            startCharIndex |-> segmentStart,
            endCharIndex |-> overlapStart]>>
    ELSE <<>>

\* the selected part keeps the speaker of the segment it was cut from
SelectedPart_KeepsSpeaker(segment, segmentStart, overlapStart, overlapEnd, newSpeaker, newLabel) ==
    <<[text |-> Substring(segment.text, overlapStart - segmentStart,
                          overlapEnd - segmentStart),
       speaker |-> segment.speaker,
       speakerLabel |-> segment.speakerLabel,
       startCharIndex |-> overlapStart,
       endCharIndex |-> overlapEnd]>>

\* handlePartialSpeakerChange, "The selected part with new speaker"
SelectedPart(segment, segmentStart, overlapStart, overlapEnd, newSpeaker, newLabel) ==
    <<[text |-> Substring(segment.text, overlapStart - segmentStart,
                          overlapEnd - segmentStart),
       speaker |-> newSpeaker,
       speakerLabel |-> newLabel,
       startCharIndex |-> overlapStart,
       endCharIndex |-> overlapEnd]>>

\* the part after the selection is lost
AfterPart_Dropped(segment, segmentStart, segmentEnd, overlapEnd) == <<>>

\* handlePartialSpeakerChange, "Part after selection (if any)"
AfterPart(segment, segmentStart, segmentEnd, overlapEnd) ==
    IF overlapEnd < segmentEnd
    THEN <<[text |-> Substring(segment.text, overlapEnd - segmentStart,
                               Len(segment.text)),
            speaker |-> segment.speaker,
            speakerLabel |-> segment.speakerLabel,
            startCharIndex |-> overlapEnd,
            endCharIndex |-> segmentEnd]>>
    ELSE <<>>

\* handlePartialSpeakerChange, the loop that splits the current segments at
\* the selection [startOffset, endOffset)
RECURSIVE SplitSegments(_, _, _, _, _, _)
SplitSegments(currentSegments, charIndex, startOffset, endOffset, newSpeaker, newLabel) ==
    IF currentSegments = <<>> THEN <<>>
    ELSE
      LET segment == Head(currentSegments)
          segmentStart == charIndex
          segmentEnd == charIndex + Len(segment.text)
          overlapStart == Max(startOffset, segmentStart)
          overlapEnd == Min(endOffset, segmentEnd)
          pieces ==
            IF overlapStart < overlapEnd
            THEN BeforePart(segment, segmentStart, overlapStart)
                 \o SelectedPart(segment, segmentStart, overlapStart, overlapEnd,
                                 newSpeaker, newLabel)
                 \o AfterPart(segment, segmentStart, segmentEnd, overlapEnd)
            ELSE <<[segment EXCEPT !.startCharIndex = segmentStart,
                                   !.endCharIndex = segmentEnd]>>
      IN  pieces \o SplitSegments(Tail(currentSegments), segmentEnd,
                                  startOffset, endOffset, newSpeaker, newLabel)

\* the split pieces are stored without merging
MergeInto_NoMerge(mergedSegments, newSegments) == mergedSegments \o newSegments

\* "Merge adjacent segments with same speaker" inside one utterance
RECURSIVE MergeInto(_, _)
MergeInto(mergedSegments, newSegments) ==
    IF newSegments = <<>> THEN mergedSegments
    ELSE
      LET segment == Head(newSegments)
          n == Len(mergedSegments)
      IN  IF n > 0 /\ mergedSegments[n].speaker = segment.speaker
          THEN MergeInto(
                 [mergedSegments EXCEPT ![n] =
                    [@ EXCEPT !.text = @ \o segment.text,
                              !.endCharIndex = segment.endCharIndex]],
                 Tail(newSegments))
          ELSE MergeInto(Append(mergedSegments, segment), Tail(newSegments))

MergeSegments(newSegments) == MergeInto(<<>>, newSegments)

\* the result is stored whether or not it differs from the original
isModified_Always(mergedSegments, utterance) == TRUE

\* handlePartialSpeakerChange: mergedSegments.length > 1 ||
\* mergedSegments[0]?.speaker !== utterance.speaker
isModified(mergedSegments, utterance) ==
    \/ Len(mergedSegments) > 1
    \/ Len(mergedSegments) = 0
    \/ mergedSegments[1].speaker # utterance.speaker

\* handlePartialSpeakerChange
handlePartialSpeakerChange(utteranceId, startOffset, endOffset, newSpeaker, newLabel) ==
    /\ lastOp' = Op("handlePartialSpeakerChange", utteranceId, newSpeaker)
    /\ UNCHANGED <<utterances, rendered, serverVars>>
    /\ IF FindUtterance(utteranceId) = 0
       THEN UNCHANGED utteranceEdits
       ELSE
         LET utterance == utterances[FindUtterance(utteranceId)]
             prev == utteranceEdits
             existingEdit == FindEdit(prev, utteranceId)
             currentSegments ==
               IF existingEdit # 0 THEN prev[existingEdit].segments
               ELSE DefaultSegments(utterance)
             newSegments == SplitSegments(currentSegments, 0, startOffset,
                                          endOffset, newSpeaker, newLabel)
             mergedSegments == MergeSegments(newSegments)
             filtered == FilterOut(prev, utteranceId)
         IN  utteranceEdits' =
               IF isModified(mergedSegments, utterance)
               THEN Append(filtered, [utteranceId |-> utteranceId,
                                      segments |-> mergedSegments])
               ELSE filtered

\* the shortcut "changing back to original speaker" is never taken
ChangesBackToOriginal_Never(newSpeaker, utterance) == FALSE

\* handleEntireSegmentSpeakerChange, "If changing back to original speaker"
ChangesBackToOriginal(newSpeaker, utterance) == newSpeaker = utterance.speaker

\* handleEntireSegmentSpeakerChange
handleEntireSegmentSpeakerChange(utteranceId, newSpeaker, newLabel) ==
    /\ lastOp' = Op("handleEntireSegmentSpeakerChange", utteranceId, newSpeaker)
    /\ UNCHANGED <<utterances, rendered, serverVars>>
    /\ IF FindUtterance(utteranceId) = 0
       THEN UNCHANGED utteranceEdits
       ELSE
         LET utterance == utterances[FindUtterance(utteranceId)]
             filtered == FilterOut(utteranceEdits, utteranceId)
         IN  utteranceEdits' =
               IF ChangesBackToOriginal(newSpeaker, utterance)
               THEN filtered
               ELSE Append(filtered,
                      [utteranceId |-> utteranceId,
                       segments |-> <<[text |-> utterance.text,
                                       speaker |-> newSpeaker,
                                       speakerLabel |-> newLabel,
                                       startCharIndex |-> 0,
                                       endCharIndex |-> Len(utterance.text)]>>])

\* every edit of the store receives the segments
ReplaceSegments_EveryEdit(prev, utteranceId, segments) ==
    [i \in 1..Len(prev) |-> [prev[i] EXCEPT !.segments = segments]]

\* prev.map(e => e.utteranceId === utterance.id ? {...e, segments} : e)
ReplaceSegments(prev, utteranceId, segments) ==
    [i \in 1..Len(prev) |->
        IF prev[i].utteranceId = utteranceId
        THEN [prev[i] EXCEPT !.segments = segments]
        ELSE prev[i]]

\* handleSegmentSpeakerChange of the utterance block, on its segment segIndex
\* (0-based, one of the segments the block shows)
handleSegmentSpeakerChange(utteranceId, segIndex, newSpeaker, newLabel) ==
    /\ FindUtterance(utteranceId) # 0
    /\ segIndex < Len(getUtteranceSegments(utterances[FindUtterance(utteranceId)]))
    /\ lastOp' = Op("handleSegmentSpeakerChange", utteranceId, newSpeaker)
    /\ UNCHANGED <<utterances, rendered, serverVars>>
    /\ LET utterance == utterances[FindUtterance(utteranceId)]
           prev == utteranceEdits
           existingEdit == FindEdit(prev, utteranceId)
       IN  IF existingEdit = 0
           THEN UNCHANGED utteranceEdits
           ELSE
             LET newSegments ==
                   [prev[existingEdit].segments EXCEPT ![segIndex + 1] =
                      [@ EXCEPT !.speaker = newSpeaker, !.speakerLabel = newLabel]]
                 mergedSegments == MergeSegments(newSegments)
             IN  utteranceEdits' =
                   IF Len(mergedSegments) = 1
                      /\ mergedSegments[1].speaker = utterance.speaker
                   THEN FilterOut(prev, utteranceId)
                   ELSE ReplaceSegments(prev, utteranceId, mergedSegments)

\* the remaining segments keep the offsets they had
Reindex_KeepsOffsets(newSegments, charIndex) == newSegments

\* handleDeleteSegment, "Recalculate char indices"
RECURSIVE Reindex(_, _)
Reindex(newSegments, charIndex) ==
    IF newSegments = <<>> THEN <<>>
    ELSE <<[Head(newSegments) EXCEPT
              !.startCharIndex = charIndex,
              !.endCharIndex = charIndex + Len(Head(newSegments).text)]>>
         \o Reindex(Tail(newSegments), charIndex + Len(Head(newSegments).text))

\* the last segment is removed, whichever index was given
RemoveAt_Last(segments, segIndex) == SubSeq(segments, 1, Len(segments) - 1)

\* existingEdit.segments.filter((_, i) => i !== segIndex)
RemoveAt(segments, segIndex) ==
    [i \in 1..(Len(segments) - 1) |->
        IF i <= segIndex THEN segments[i] ELSE segments[i + 1]]

\* handleDeleteSegment of the utterance block, on its segment segIndex
handleDeleteSegment(utteranceId, segIndex) ==
    /\ FindUtterance(utteranceId) # 0
    /\ segIndex < Len(getUtteranceSegments(utterances[FindUtterance(utteranceId)]))
    /\ lastOp' = Op("handleDeleteSegment", utteranceId, NULL)
    /\ UNCHANGED <<utterances, rendered, serverVars>>
    /\ LET prev == utteranceEdits
           existingEdit == FindEdit(prev, utteranceId)
       IN  IF existingEdit = 0
           THEN UNCHANGED utteranceEdits
           ELSE
             LET newSegments == RemoveAt(prev[existingEdit].segments, segIndex)
             IN  utteranceEdits' =
                   IF Len(newSegments) = 0
                   THEN FilterOut(prev, utteranceId)
                   ELSE ReplaceSegments(prev, utteranceId, Reindex(newSegments, 0))

\* handleDeleteUtterance
handleDeleteUtterance(utteranceId) ==
    /\ FindUtterance(utteranceId) # 0
    /\ utteranceEdits' = Append(FilterOut(utteranceEdits, utteranceId),
                                [utteranceId |-> utteranceId, segments |-> <<>>])
    /\ lastOp' = Op("handleDeleteUtterance", utteranceId, NULL)
    /\ UNCHANGED <<utterances, rendered, serverVars>>

\* handleRevertUtterance
handleRevertUtterance(utteranceId) ==
    /\ FindUtterance(utteranceId) # 0
    /\ utteranceEdits' = FilterOut(utteranceEdits, utteranceId)
    /\ lastOp' = Op("handleRevertUtterance", utteranceId, NULL)
    /\ UNCHANGED <<utterances, rendered, serverVars>>

\* the "Clear Edits" button, shown when editCount > 0
ClearEdits ==
    /\ editCount > 0
    /\ utteranceEdits' = <<>>
    /\ lastOp' = [op |-> "ClearEdits", utteranceId |-> NoUtterance, prevSegs |-> 0 - 1]
    /\ UNCHANGED <<utterances, rendered, serverVars>>

(***************************************************************************)
(* Flattening: ExportDialog.processedSegments                              *)
(***************************************************************************)
\* the rendered segments one utterance contributes (body of the first loop)
UtteranceRendered(utterance, edits) ==
    LET edit == FindEdit(edits, utterance.id)
    IN  IF edit # 0 /\ Len(edits[edit].segments) > 0
        THEN [k \in 1..Len(edits[edit].segments) |->
                [speaker |-> edits[edit].segments[k].speaker,
                 speakerLabel |-> edits[edit].segments[k].speakerLabel,
                 text |-> edits[edit].segments[k].text,
                 startMs |-> utterance.startMs,
                 endMs |-> utterance.endMs]]
        ELSE <<[speaker |-> utterance.speaker,
                speakerLabel |-> utterance.speakerLabel,
                text |-> utterance.text,
                startMs |-> utterance.startMs,
                endMs |-> utterance.endMs]>>

\* allSegments: the contributions of the utterances in list order
RECURSIVE AllSegments(_, _)
AllSegments(utts, edits) ==
    IF utts = <<>> THEN <<>>
    ELSE UtteranceRendered(Head(utts), edits) \o AllSegments(Tail(utts), edits)

\* the merged segment keeps the end time of its first part and the texts are
\* joined without a space
RECURSIVE MergeRenderedInto_KeepsEnd(_, _)
MergeRenderedInto_KeepsEnd(merged, allSegments) ==
    IF allSegments = <<>> THEN merged
    ELSE
      LET segment == Head(allSegments)
          n == Len(merged)
      IN  IF n > 0 /\ merged[n].speaker = segment.speaker
          THEN MergeRenderedInto_KeepsEnd(
                 [merged EXCEPT ![n] = [@ EXCEPT !.text = @ \o segment.text]],
                 Tail(allSegments))
          ELSE MergeRenderedInto_KeepsEnd(Append(merged, segment), Tail(allSegments))

\* "Merge adjacent segments with same speaker" across utterances
RECURSIVE MergeRenderedInto(_, _)
MergeRenderedInto(merged, allSegments) ==
    IF allSegments = <<>> THEN merged
    ELSE
      LET segment == Head(allSegments)
          n == Len(merged)
      IN  IF n > 0 /\ merged[n].speaker = segment.speaker
          THEN MergeRenderedInto(
                 [merged EXCEPT ![n] =
                    [@ EXCEPT !.text = @ \o <<SP>> \o segment.text,
                              !.endMs = segment.endMs]],
                 Tail(allSegments))
          ELSE MergeRenderedInto(Append(merged, segment), Tail(allSegments))

\* neighbours are merged whatever their speakers are
MergeRendered_AnySpeaker(allSegments) ==
    IF allSegments = <<>> THEN <<>>
    ELSE <<[allSegments[1] EXCEPT
              !.text = JoinSpace([k \in 1..Len(allSegments) |-> allSegments[k].text]),
              !.endMs = allSegments[Len(allSegments)].endMs]>>

MergeRendered(allSegments) == MergeRenderedInto(<<>>, allSegments)

Flatten(utts, edits) == MergeRendered(AllSegments(utts, edits))

\* the memo processedSegments of the export dialog
processedSegments == Flatten(utterances, utteranceEdits)

(***************************************************************************)
(* Pagination: formatTimestamp, getSpeakerLabel, splitTextIntoLines,       *)
(* processSegmentsIntoLines, paginateLines                                 *)
(***************************************************************************)
LINES_PER_PAGE == 25
CHARS_PER_LINE == 65

\* the floor of the first line's width in processSegmentsIntoLines
MIN_FIRST_LINE_CHARS == 30

DigitChars == <<"0", "1", "2", "3", "4", "5", "6", "7", "8", "9">>

\* Number.prototype.toString() of a natural number
RECURSIVE NumToString(_)
NumToString(n) ==
    IF n < 10 THEN <<DigitChars[n + 1]>>
    ELSE NumToString(n \div 10) \o <<DigitChars[(n % 10) + 1]>>

\* String.prototype.padStart(width, c)
PadStart(s, width, c) ==
    IF Len(s) >= width THEN s ELSE Rep(c, width - Len(s)) \o s

\* formatTimestamp
formatTimestamp(ms) ==
    LET totalSeconds == ms \div 1000
        hours == totalSeconds \div 3600
        minutes == (totalSeconds % 3600) \div 60
        seconds == totalSeconds % 60
    IN  IF hours > 0
        THEN NumToString(hours) \o <<":">> \o PadStart(NumToString(minutes), 2, "0")
             \o <<":">> \o PadStart(NumToString(seconds), 2, "0")
        ELSE NumToString(minutes) \o <<":">> \o PadStart(NumToString(seconds), 2, "0")

LowerChars == <<"a", "b", "c", "d", "e", "f", "g", "h", "i", "j", "k", "l", "m",
                "n", "o", "p", "q", "r", "s", "t", "u", "v", "w", "x", "y", "z">>
UpperChars == <<"A", "B", "C", "D", "E", "F", "G", "H", "I", "J", "K", "L", "M",
                "N", "O", "P", "Q", "R", "S", "T", "U", "V", "W", "X", "Y", "Z">>

\* String.prototype.toUpperCase() on the characters the model uses
toUpperCase(s) ==
    [i \in 1..Len(s) |->
        IF \E k \in 1..26 : LowerChars[k] = s[i]
        THEN UpperChars[CHOOSE k \in 1..26 : LowerChars[k] = s[i]]
        ELSE s[i]]

\* the segments of all edits, in store order
RECURSIVE EditSegments(_)
EditSegments(edits) ==
    IF edits = <<>> THEN <<>> ELSE Head(edits).segments \o EditSegments(Tail(edits))

\* getSpeakerLabel
getSpeakerLabel(speaker, speakerLabel) ==
    LET segs == EditSegments(utteranceEdits)
        hits == {k \in 1..Len(segs) :
                    segs[k].speaker = speaker /\ Truthy(segs[k].speakerLabel)}
        stored == LabelFor(speaker)
    IN  IF hits # {}
        THEN segs[CHOOSE k \in hits : \A j \in hits : k <= j].speakerLabel
        ELSE IF Truthy(speakerLabel) THEN speakerLabel
        ELSE IF Truthy(stored) THEN stored
        ELSE <<"S", "p", "e", "a", "k", "e", "r", SP, speaker>>

\* splitTextIntoLines, the loop over the words
RECURSIVE SplitLoop(_, _, _, _)
SplitLoop(words, currentLine, lines, charsPerLine) ==
    IF words = <<>>
    THEN IF currentLine # <<>> THEN Append(lines, currentLine) ELSE lines
    ELSE
      LET word == Head(words)
          testLine == IF currentLine # <<>> THEN currentLine \o <<SP>> \o word
                      ELSE word
      IN  IF Len(testLine) <= charsPerLine
          THEN SplitLoop(Tail(words), testLine, lines, charsPerLine)
          ELSE SplitLoop(Tail(words), word,
                         IF currentLine # <<>> THEN Append(lines, currentLine)
                         ELSE lines,
                         charsPerLine)

\* continuation lines are filled to the line width plus the prefix allowance
splitTextIntoLines_TooWide(text, charsPerLine) ==
    SplitLoop(SplitSpace(text), <<>>, <<>>, charsPerLine + MIN_FIRST_LINE_CHARS)

\* splitTextIntoLines
splitTextIntoLines(text, charsPerLine) ==
    SplitLoop(SplitSpace(text), <<>>, <<>>, charsPerLine)

\* processSegmentsIntoLines, the while loop that fills the first line: the
\* number of words it takes
RECURSIVE FirstLineCount(_, _, _, _)
FirstLineCount(words, wordIndex, firstLineLength, firstLineChars) ==
    IF wordIndex >= Len(words) THEN wordIndex
    ELSE
      LET word == words[wordIndex + 1]
          testLength == firstLineLength + (IF firstLineLength > 0 THEN 1 ELSE 0)
                        + Len(word)
      IN  IF testLength <= Max(firstLineChars, MIN_FIRST_LINE_CHARS)
          THEN FirstLineCount(words, wordIndex + 1, testLength, firstLineChars)
          ELSE wordIndex

\* the line prefix "[timestamp] SPEAKER: "
LinePrefix(segment) ==
    <<"[">> \o formatTimestamp(segment.startMs) \o <<"]", SP>>
    \o toUpperCase(getSpeakerLabel(segment.speaker, segment.speakerLabel))
    \o <<":", SP>>

\* processSegmentsIntoLines, allLines of one segment
SegmentLines(segment) ==
    LET firstLineChars == CHARS_PER_LINE - Len(LinePrefix(segment))
        words == SplitSpace(segment.text)
        wordIndex == FirstLineCount(words, 0, 0, firstLineChars)
        firstLine == JoinSpace(SubSeq(words, 1, wordIndex))
        remainingText == JoinSpace(SubSeq(words, wordIndex + 1, Len(words)))
    IN  IF remainingText # <<>>
        THEN <<firstLine>> \o splitTextIntoLines(remainingText, CHARS_PER_LINE)
        ELSE <<firstLine>>

\* the line number restarts at 1 in every segment
DocumentLinesOf_PerSegment(segment, lineNumber) ==
    LET allLines == SegmentLines(segment)
    IN  [idx \in 1..Len(allLines) |->
            [lineNumber |-> idx,
             speaker |-> IF idx = 1 THEN segment.speaker ELSE UNDEFINED,
             speakerLabel |-> IF idx = 1 THEN segment.speakerLabel ELSE UNDEFINED,
             timestamp |-> IF idx = 1 THEN formatTimestamp(segment.startMs)
                           ELSE UNDEFINED,
             text |-> allLines[idx],
             isContinuation |-> idx > 1]]

\* every line of the segment carries the prefix fields
DocumentLinesOf_PrefixOnEveryLine(segment, lineNumber) ==
    LET allLines == SegmentLines(segment)
    IN  [idx \in 1..Len(allLines) |->
            [lineNumber |-> lineNumber + idx - 1,
             speaker |-> segment.speaker,
             speakerLabel |-> segment.speakerLabel,
             timestamp |-> formatTimestamp(segment.startMs),
             text |-> allLines[idx],
             isContinuation |-> FALSE]]

\* processSegmentsIntoLines, the document lines of one segment, numbered
\* from lineNumber on
DocumentLinesOf(segment, lineNumber) ==
    LET allLines == SegmentLines(segment)
    IN  [idx \in 1..Len(allLines) |->
            [lineNumber |-> lineNumber + idx - 1,
             speaker |-> IF idx = 1 THEN segment.speaker ELSE UNDEFINED,
             speakerLabel |-> IF idx = 1 THEN segment.speakerLabel ELSE UNDEFINED,
             timestamp |-> IF idx = 1 THEN formatTimestamp(segment.startMs)
                           ELSE UNDEFINED,
             text |-> allLines[idx],
             isContinuation |-> idx > 1]]

RECURSIVE ProcessLoop(_, _, _)
ProcessLoop(segments, lines, lineNumber) ==
    IF segments = <<>> THEN lines
    ELSE LET new == DocumentLinesOf(Head(segments), lineNumber)
         IN  ProcessLoop(Tail(segments), lines \o new, lineNumber + Len(new))

\* the line counter is not reset: it goes on from the lines of the last run
processSegmentsIntoLines_CarriesLineNumber(segments) ==
    ProcessLoop(segments, <<>>, Len(rendered.lines) + 1)

\* processSegmentsIntoLines
processSegmentsIntoLines(segments) == ProcessLoop(segments, <<>>, 1)

\* a page is closed one line late
PageIsFull_Late(currentPage, linesPerPage) == Len(currentPage) > linesPerPage

\* paginateLines, currentPage.length >= linesPerPage
PageIsFull(currentPage, linesPerPage) == Len(currentPage) >= linesPerPage

\* paginateLines, the loop over the lines
RECURSIVE PaginateLoop(_, _, _, _, _)
PaginateLoop(lines, pages, currentPage, pageNumber, linesPerPage) ==
    IF lines = <<>>
    THEN IF Len(currentPage) > 0
         THEN Append(pages, [pageNumber |-> pageNumber, lines |-> currentPage])
         ELSE pages
    ELSE
      LET pushed == Append(currentPage, Head(lines))
      IN  IF PageIsFull(pushed, linesPerPage)
          THEN PaginateLoop(Tail(lines),
                            Append(pages, [pageNumber |-> pageNumber, lines |-> pushed]),
                            <<>>, pageNumber + 1, linesPerPage)
          ELSE PaginateLoop(Tail(lines), pages, pushed, pageNumber, linesPerPage)

\* paginateLines
paginateLines(lines, linesPerPage) == PaginateLoop(lines, <<>>, <<>>, 1, linesPerPage)

\* the memos documentLines and pages of the export dialog
documentLines == processSegmentsIntoLines(processedSegments)
pages == paginateLines(documentLines, LINES_PER_PAGE)

\* the export dialog renders: its memos processedSegments, documentLines and
\* pages are computed from the transcript and the edits of the moment
RenderPreview ==
    /\ rendered' =
          LET segments == processedSegments
              lines == processSegmentsIntoLines(segments)
          IN  [ran |-> TRUE,
               again |-> /\ rendered.ran
                         /\ rendered.segments = segments
                         /\ rendered.edits = utteranceEdits,
               segments |-> segments,
               edits |-> utteranceEdits,
               lines |-> lines,
               pages |-> paginateLines(lines, LINES_PER_PAGE)]
    /\ UNCHANGED <<utterances, utteranceEdits, lastOp, serverVars>>

(***************************************************************************)
(* Export route: the numbered lines of generatePlainText and               *)
(* generateWordDocument, one per utterance row of the database             *)
(***************************************************************************)
\* labelMap[utterance.speaker] || utterance.speakerLabel || `Speaker ${speaker}`
ExportSpeakerName(utterance) ==
    IF Truthy(LabelFor(utterance.speaker)) THEN LabelFor(utterance.speaker)
    ELSE IF Truthy(utterance.speakerLabel) THEN utterance.speakerLabel
    ELSE <<"S", "p", "e", "a", "k", "e", "r", SP, utterance.speaker>>

\* generatePlainText, "Utterances with line numbers"
generatePlainText(utteranceList) ==
    [i \in 1..Len(utteranceList) |->
        [lineNumber |-> i,
         text |-> <<"[">> \o formatTimestamp(utteranceList[i].startMs) \o <<"]", SP>>
                  \o toUpperCase(ExportSpeakerName(utteranceList[i])) \o <<":", SP>>
                  \o utteranceList[i].text]]

\* generateWordDocument, "Utterances with line numbers": one numbered
\* paragraph per utterance
generateWordDocument(utteranceList) ==
    [i \in 1..Len(utteranceList) |->
        [lineNumber |-> i,
         timestamp |-> formatTimestamp(utteranceList[i].startMs),
         speakerName |-> toUpperCase(ExportSpeakerName(utteranceList[i])),
         text |-> utteranceList[i].text]]

(***************************************************************************)
(* Long transcripts, for the pagination stage                              *)
(***************************************************************************)
\* the long transcripts have 1, 2 or MaxDocUtterances-2..MaxDocUtterances
\* utterances
MaxDocUtterances == 26

DocIds == <<"u1", "u2", "u3", "u4", "u5", "u6", "u7", "u8", "u9", "u10",
            "u11", "u12", "u13", "u14", "u15", "u16", "u17", "u18", "u19", "u20",
            "u21", "u22", "u23", "u24", "u25", "u26", "u27", "u28", "u29", "u30">>

DocSizes == {1, 2} \cup ((MaxDocUtterances - 2)..MaxDocUtterances)

Yes == <<"y", "e", "s">>
Sir == <<"s", "i", "r">>

\* "yes sir"
ShortText == JoinSpace(<<Yes, Sir>>)
\* twenty five-letter words: 119 characters
ParaText == JoinSpace([k \in 1..20 |-> Rep("a", 5)])
\* a word longer than a line, then a short one
LongWordText == JoinSpace(<<Sir, Rep("x", 70), Yes>>)
\* a first word that does not fit beside the prefix
WideFirstText == JoinSpace(<<Rep("w", 50), Yes, Sir>>)

DocText(kind, i) ==
    IF kind = "short" THEN ShortText
    ELSE CASE i % 4 = 1 -> ParaText
           [] i % 4 = 2 -> LongWordText
           [] i % 4 = 3 -> WideFirstText
           [] OTHER -> ShortText

DocSpeaker(pattern, i) ==
    IF pattern = "same" THEN "A" ELSE IF i % 2 = 1 THEN "A" ELSE "B"

\* utterance i starts 150 s after utterance i-1, so that the later ones have
\* an H:MM:SS timestamp
DocTranscript(n, pattern, kind) ==
    utterancesWithLabels(
       [i \in 1..n |->
           Utterance(DocIds[i], DocSpeaker(pattern, i), DocText(kind, i),
                     i * 150000, (i + 1) * 150000, i - 1)])

\* alternating speakers with short or mixed texts, or one speaker throughout
\* with short texts (which flattens to a single long rendered segment)
DocShapes == {<<"alt", "short">>, <<"alt", "mixed">>, <<"same", "short">>}

DocTranscripts ==
    {DocTranscript(n, shape[1], shape[2]) : n \in DocSizes, shape \in DocShapes}

\* offsets a caller may hand to handlePartialSpeakerChange
Offsets == (0 - 1)..MaxOffset

SegIndices == 0..MaxSegIndex

Next ==
    \/ \E id \in UtteranceIds, s \in Offsets, e \in Offsets, sp \in Speakers :
          handlePartialSpeakerChange(id, s, e, sp, LabelFor(sp))
    \/ \E sp \in Speakers : handlePartialSpeakerChange(Ghost, 0, 2, sp, LabelFor(sp))
    \/ \E id \in UtteranceIds \cup {Ghost}, sp \in Speakers :
          handleEntireSegmentSpeakerChange(id, sp, LabelFor(sp))
    \/ \E id \in UtteranceIds, i \in SegIndices, sp \in Speakers :
          handleSegmentSpeakerChange(id, i, sp, LabelFor(sp))
    \/ \E id \in UtteranceIds, i \in SegIndices : handleDeleteSegment(id, i)
    \/ \E id \in UtteranceIds : handleDeleteUtterance(id)
    \/ \E id \in UtteranceIds : handleRevertUtterance(id)
    \/ ClearEdits

Spec == Init /\ [][Next]_vars

\* the editing session on a long transcript: the same handlers, on the first
\* utterances and with offsets at the word boundaries of "yes sir"
InitDoc ==
    /\ utterances \in DocTranscripts
    /\ utteranceEdits = <<>>
    /\ lastOp = [op |-> "init", utteranceId |-> NoUtterance, prevSegs |-> 0 - 1]
    /\ rendered = NotRendered
    /\ Transcribed

DocRanges == {<<0, 3>>, <<3, 7>>}

NextDoc ==
    \/ \E r \in DocRanges, sp \in Speakers :
          handlePartialSpeakerChange("u1", r[1], r[2], sp, LabelFor(sp))
    \/ \E id \in {"u1", "u2"}, sp \in Speakers :
          handleEntireSegmentSpeakerChange(id, sp, LabelFor(sp))
    \/ handleDeleteUtterance("u1")
    \/ handleRevertUtterance("u1")
    \/ ClearEdits

SpecDoc == InitDoc /\ [][NextDoc]_vars

\* the editing session with the export dialog open: the dialog renders
\* between edits of the first utterance, on short and on long transcripts
RunTranscripts ==
    { utterancesWithLabels(<<W1>>), utterancesWithLabels(<<U1, U2b>>),
      DocTranscript(2, "same", "short"),
      DocTranscript(MaxDocUtterances, "alt", "mixed") }

InitRun ==
    /\ utterances \in RunTranscripts
    /\ utteranceEdits = <<>>
    /\ lastOp = [op |-> "init", utteranceId |-> NoUtterance, prevSegs |-> 0 - 1]
    /\ rendered = NotRendered
    /\ Transcribed

NextRun ==
    \/ \E sp \in Speakers : handlePartialSpeakerChange("u1", 0, 1, sp, LabelFor(sp))
    \/ \E sp \in Speakers : handleEntireSegmentSpeakerChange("u1", sp, LabelFor(sp))
    \/ handleDeleteUtterance("u1")
    \/ handleRevertUtterance("u1")
    \/ RenderPreview

SpecRun == InitRun /\ [][NextRun]_vars

\* the editing session on the one-utterance transcript, with every handler
InitOne ==
    /\ utterances = utterancesWithLabels(<<W1>>)
    /\ utteranceEdits = <<>>
    /\ lastOp = [op |-> "init", utteranceId |-> NoUtterance, prevSegs |-> 0 - 1]
    /\ rendered = NotRendered
    /\ Transcribed

SpecOne == InitOne /\ [][Next]_vars

\* the pipeline of a recording that POST /api/recordings has just created;
\* the transcript page is not open
InitServer ==
    /\ \E extension \in Formats :
          db = [recordings |-> NewRecording(extension),
                transcripts |-> <<>>, utterances |-> <<>>]
    /\ jobs = <<>>
    /\ inflight = Idle
    /\ lastRequest = Request("POST recordings", "none", FALSE)
    /\ utterances = <<>>
    /\ utteranceEdits = <<>>
    /\ lastOp = [op |-> "init", utteranceId |-> NoUtterance, prevSegs |-> 0 - 1]
    /\ rendered = NotRendered

NextServer ==
    \/ \E ok \in BOOLEAN : processPOST(ok)
    \/ \E job_id \in 1..MaxJobs, status \in {"completed", "failed", "error"},
          outputUrl \in BOOLEAN : casedevJob(job_id, status, outputUrl)
    \/ \E job_id \in 1..MaxJobs : convertWebhook(job_id)
    \/ \E ok \in BOOLEAN : convertWebhookTranscribe(ok)
    \/ \E jobId \in 1..MaxJobs : transcribeWebhook(jobId)
    \/ transcribeWebhookUpdate
    \/ processGET
    \/ processGETInsert
    \/ processGETUpdate

SpecServer == InitServer /\ [][NextServer]_vars

(***************************************************************************)
(* Properties                                                              *)
(***************************************************************************)
\* the texts of a list of segments, concatenated in order
SegmentsText(segments) == Concat([k \in 1..Len(segments) |-> segments[k].text])

\* the segments reproduce the utterance's text and the last ends at its length
Covers(utterance) ==
    LET segments == getUtteranceSegments(utterance)
    IN  /\ Len(segments) > 0
        /\ SegmentsText(segments) = utterance.text
        /\ segments[Len(segments)].endCharIndex = Len(utterance.text)

\* no two consecutive elements have the same speaker
NoAdjacentSameSpeaker(segments) ==
    \A k \in 1..(Len(segments) - 1) : segments[k].speaker # segments[k + 1].speaker

\* the utterance the last handler was called on, as a set (empty for an
\* unknown id)
LastUtterance ==
    {utterances[i] : i \in {i \in 1..Len(utterances) :
                              utterances[i].id = lastOp.utteranceId}}

SplitOps == {"handlePartialSpeakerChange", "handleEntireSegmentSpeakerChange",
             "handleSegmentSpeakerChange"}

DeleteOps == {"handleDeleteSegment", "handleDeleteUtterance"}

\* C1 as stated: after any sequence of edit operations, for every utterance
\* the texts of its current segments concatenated in order are the
\* utterance's original text and the last segment ends at len(text).
C1_CoverageAlways ==
    \A i \in 1..Len(utterances) : Covers(utterances[i])

\* C1 amended: coverage holds when the session starts, and every operation
\* other than deleteSegment and deleteUtterance preserves it for every
\* utterance; only those two handlers remove text.
C1_CoveragePreserved ==
    [][\A i \in 1..Len(utterances) :
          (/\ Covers(utterances[i])
           /\ ~(lastOp'.op \in DeleteOps /\ lastOp'.utteranceId = utterances[i].id))
          => Covers(utterances[i])']_vars

\* a selection inside an utterance has split it into three covering segments
C1_Witness ==
    /\ lastOp.op = "handlePartialSpeakerChange"
    /\ \E u \in LastUtterance :
          Len(getUtteranceSegments(u)) >= 3 /\ Covers(u)

\* the utterance is marked deleted: its edit has no segments
IsDeleted(utterance) ==
    /\ FindEdit(utteranceEdits, utterance.id) # 0
    /\ utteranceEdits[FindEdit(utteranceEdits, utterance.id)].segments = <<>>

\* C2: after deleteUtterance(u) flattening emits no rendered segment for u,
\* and after restoreUtterance(u) it emits u's original single segment.
C2_DeletedEmitsNothing ==
    \A i \in 1..Len(utterances) :
       LET u == utterances[i]
       IN  /\ IsDeleted(u) => UtteranceRendered(u, utteranceEdits) = <<>>
           /\ (lastOp.op = "handleRevertUtterance" /\ lastOp.utteranceId = u.id)
                => UtteranceRendered(u, utteranceEdits)
                     = <<[speaker |-> u.speaker, speakerLabel |-> u.speakerLabel,
                          text |-> u.text, startMs |-> u.startMs, endMs |-> u.endMs]>>

\* C3: after a split/reassign operation on an utterance no two consecutive
\* segments of that utterance share a speaker, and no two consecutive
\* rendered segments of the flattened stream share a speaker.
C3_NoAdjacentSameSpeaker ==
    /\ lastOp.op \in SplitOps
         => \A u \in LastUtterance : NoAdjacentSameSpeaker(getUtteranceSegments(u))
    /\ NoAdjacentSameSpeaker(processedSegments)

\* a split/reassign acted on an utterance that had three or more segments and
\* left it with fewer, and flattening merged across segments as well
C3_Witness ==
    /\ lastOp.op \in {"handlePartialSpeakerChange", "handleSegmentSpeakerChange"}
    /\ lastOp.prevSegs >= 3
    /\ \E u \in LastUtterance :
          /\ Len(getUtteranceSegments(u)) >= 2
          /\ Len(getUtteranceSegments(u)) < lastOp.prevSegs
    /\ Len(processedSegments) < Len(AllSegments(utterances, utteranceEdits))

\* number of lines on all pages
RECURSIVE TotalLines(_)
TotalLines(ps) == IF ps = <<>> THEN 0 ELSE Len(Head(ps).lines) + TotalLines(Tail(ps))

\* C4: lineNumber starts at 1 and increases by exactly 1 for every line
\* across all segments and pages, so the last line of the last page has the
\* total number of lines as its lineNumber.
C4_GlobalLineNumbering ==
    LET lines == documentLines
        ps == paginateLines(lines, LINES_PER_PAGE)
    IN  /\ \A k \in 1..Len(lines) : lines[k].lineNumber = k
        /\ \A p \in 1..Len(ps) : \A k \in 1..Len(ps[p].lines) :
              ps[p].lines[k].lineNumber =
                 (IF p = 1 /\ k = 1 THEN 1
                  ELSE IF k = 1
                       THEN ps[p - 1].lines[Len(ps[p - 1].lines)].lineNumber + 1
                       ELSE ps[p].lines[k - 1].lineNumber + 1)
        /\ ps # <<>> =>
              ps[Len(ps)].lines[Len(ps[Len(ps)].lines)].lineNumber = TotalLines(ps)

\* several pages, and a rendered segment of several lines
C4_Witness ==
    LET segs == processedSegments
    IN  /\ Len(pages) >= 2
        /\ \E k \in 1..Len(segs) : Len(SegmentLines(segs[k])) >= 3
        /\ utteranceEdits # <<>>

\* C5: the plain-text and Word renderers produce the same numbered lines as
\* the pagination stage: as many, with the same line numbers.
C5_RenderersMatchPagination ==
    LET txt == generatePlainText(utterances)
        docx == generateWordDocument(utterances)
        lines == documentLines
    IN  /\ Len(txt) = Len(lines)
        /\ Len(docx) = Len(lines)
        /\ \A k \in 1..Len(txt) : txt[k].lineNumber = lines[k].lineNumber
        /\ \A k \in 1..Len(docx) : docx[k].lineNumber = lines[k].lineNumber

\* the segments are the trivial default of the utterance
IsDefault(segments, utterance) ==
    /\ Len(segments) = 1
    /\ segments[1].speaker = utterance.speaker
    /\ segments[1].text = utterance.text

\* C6: an edit is in the store only if it differs from the utterance's
\* default (one segment, original speaker, full text), and the edited count
\* is the number of utterances that deviate from the original.
C6_NoOpCollapse ==
    /\ \A k \in 1..Len(utteranceEdits) :
          /\ FindUtterance(utteranceEdits[k].utteranceId) # 0
          /\ ~IsDefault(utteranceEdits[k].segments,
                        utterances[FindUtterance(utteranceEdits[k].utteranceId)])
    /\ editCount = Cardinality({i \in 1..Len(utterances) :
                      ~IsDefault(getUtteranceSegments(utterances[i]), utterances[i])})

\* a split/reassign on an edited utterance gave the default and the edit is
\* gone, while another utterance remains edited
C6_Witness ==
    /\ lastOp.op \in {"handlePartialSpeakerChange", "handleSegmentSpeakerChange"}
    /\ lastOp.prevSegs >= 2
    /\ FindUtterance(lastOp.utteranceId) # 0
    /\ FindEdit(utteranceEdits, lastOp.utteranceId) = 0
    /\ editCount = 1

\* C7: reassignEntireUtterance(u, u.speakerId) from any state of the store
\* leaves no edit for u, so get(u) is the original single segment.
C7_RevertRoundTrip ==
    [][\A i \in 1..Len(utterances) :
          handleEntireSegmentSpeakerChange(utterances[i].id, utterances[i].speaker,
                                           LabelFor(utterances[i].speaker))
          => /\ FindEdit(utteranceEdits', utterances[i].id) = 0
             /\ getUtteranceSegments(utterances[i])' = DefaultSegments(utterances[i])]_vars

\* the whole-utterance reassignment ran on an utterance that was split into
\* several segments or marked deleted, and no edit is left for it
C7_Witness ==
    /\ lastOp.op = "handleEntireSegmentSpeakerChange"
    /\ lastOp.prevSegs = 0 \/ lastOp.prevSegs >= 2
    /\ FindUtterance(lastOp.utteranceId) # 0
    /\ FindEdit(utteranceEdits, lastOp.utteranceId) = 0
    /\ editCount = 1

\* split(' ') without the empty pieces
Words(text) == SelectSeq(SplitSpace(text), LAMBDA w : w # <<>>)

\* the words of the texts of a list of records, in order
RECURSIVE WordsOf(_)
WordsOf(rs) == IF rs = <<>> THEN <<>> ELSE Words(Head(rs).text) \o WordsOf(Tail(rs))

RECURSIVE PageLines(_)
PageLines(ps) == IF ps = <<>> THEN <<>> ELSE Head(ps).lines \o PageLines(Tail(ps))

\* C9: every page but the last has exactly LINES_PER_PAGE lines, the last
\* has between 1 and LINES_PER_PAGE, page numbers are 1..n, and the pages'
\* lines in page order are the input lines.
C9_PageStructure ==
    LET lines == documentLines
        ps == paginateLines(lines, LINES_PER_PAGE)
    IN  /\ \A p \in 1..Len(ps) :
              /\ ps[p].pageNumber = p
              /\ Len(ps[p].lines) >= 1
              /\ Len(ps[p].lines) <= LINES_PER_PAGE
              /\ p < Len(ps) => Len(ps[p].lines) = LINES_PER_PAGE
        /\ PageLines(ps) = lines

\* two or more pages with a last page that is not full
C9_Witness ==
    LET ps == pages
    IN  /\ Len(ps) >= 2
        /\ Len(ps[Len(ps)].lines) < LINES_PER_PAGE
        /\ utteranceEdits # <<>>

\* C10: a transcript with zero utterances, and one whose utterances are all
\* deleted, paginate to zero pages and zero lines.
C10_DegenerateInput ==
    (\A i \in 1..Len(utterances) : IsDeleted(utterances[i]))
       => pages = <<>> /\ documentLines = <<>>

\* C11: the adjacent-same-speaker merge applied to a list in which no two
\* consecutive segments share a speaker returns that list, and merging a
\* merged list again changes nothing, for the merge inside an utterance and
\* for the merge of flattening.
C11_IdempotentMerge ==
    /\ \A i \in 1..Len(utterances) :
          LET segments == getUtteranceSegments(utterances[i])
          IN  /\ NoAdjacentSameSpeaker(segments) => MergeSegments(segments) = segments
              /\ MergeSegments(MergeSegments(segments)) = MergeSegments(segments)
    /\ LET allSegments == AllSegments(utterances, utteranceEdits)
       IN  /\ NoAdjacentSameSpeaker(allSegments)
                => MergeRendered(allSegments) = allSegments
           /\ MergeRendered(MergeRendered(allSegments)) = MergeRendered(allSegments)

\* an utterance split into three segments with alternating speakers, in a
\* flattened stream of four or more segments that alternates as well
C11_Witness ==
    /\ \E i \in 1..Len(utterances) :
          /\ Len(getUtteranceSegments(utterances[i])) >= 3
          /\ NoAdjacentSameSpeaker(getUtteranceSegments(utterances[i]))
    /\ Len(AllSegments(utterances, utteranceEdits)) >= 4
    /\ NoAdjacentSameSpeaker(AllSegments(utterances, utteranceEdits))

TextLen(segments) == Len(SegmentsText(segments))

\* the speaker of the segment that holds the character at 0-based position pos
RECURSIVE SpeakerAt(_, _)
SpeakerAt(segments, pos) ==
    IF pos < Len(Head(segments).text) THEN Head(segments).speaker
    ELSE SpeakerAt(Tail(segments), pos - Len(Head(segments).text))

\* C13: splitAndReassign with a valid range [startOffset, endOffset), which
\* may span several segments, attributes every character position of the
\* segment list inside the range to the new speaker and leaves every position
\* outside it with the speaker it had; a strictly interior range of an
\* unedited utterance of speaker A given to B # A yields exactly three
\* segments A, B, A whose lengths sum to the length of the original text.
C13_SplitAndReassign ==
    [][\A i \in 1..Len(utterances), s \in Offsets, e \in Offsets, sp \in Speakers :
          LET u == utterances[i]
              pre == getUtteranceSegments(u)
              post == getUtteranceSegments(u)'
          IN  (/\ 0 <= s /\ s < e /\ e <= Len(u.text)
               /\ handlePartialSpeakerChange(u.id, s, e, sp, LabelFor(sp)))
              => /\ \A p \in 0..(TextLen(pre) - 1) :
                       /\ p < TextLen(post)
                       /\ SpeakerAt(post, p) =
                            (IF s <= p /\ p < e THEN sp ELSE SpeakerAt(pre, p))
                 /\ (/\ FindEdit(utteranceEdits, u.id) = 0
                     /\ 0 < s /\ e < Len(u.text) /\ sp # u.speaker)
                    => /\ Len(post) = 3
                       /\ post[1].speaker = u.speaker /\ Len(post[1].text) = s
                       /\ post[2].speaker = sp /\ Len(post[2].text) = e - s
                       /\ post[3].speaker = u.speaker
                       /\ Len(post[3].text) = Len(u.text) - e
                       /\ TextLen(post) = Len(u.text)]_vars

\* a selection strictly inside an unedited utterance of A was given to B and
\* the utterance now has the three segments A, B, A
C13_Witness ==
    /\ lastOp.op = "handlePartialSpeakerChange"
    /\ lastOp.prevSegs = 0 - 1
    /\ \E u \in LastUtterance :
          LET segments == getUtteranceSegments(u)
          IN  /\ Len(segments) = 3
              /\ segments[1].speaker = u.speaker
              /\ segments[2].speaker # u.speaker
              /\ segments[3].speaker = u.speaker

\* C14: splitAndReassign with an empty range (startOffset >= endOffset) or an
\* out-of-bounds range (startOffset < 0 or endOffset > len(text)) leaves the
\* edit store unchanged; a range that lies partly inside the text is not
\* applied to the part in bounds.
C14_InvalidRangeRejected ==
    [][\A i \in 1..Len(utterances), s \in Offsets, e \in Offsets, sp \in Speakers :
          (/\ s >= e \/ s < 0 \/ e > Len(utterances[i].text)
           /\ handlePartialSpeakerChange(utterances[i].id, s, e, sp, LabelFor(sp)))
          => UNCHANGED utteranceEdits]_vars

\* the segments start at 0, are non-empty and contiguous, and each ends
\* where its text ends
Structured(utterance) ==
    LET segments == getUtteranceSegments(utterance)
    IN  /\ segments # <<>> => segments[1].startCharIndex = 0
        /\ \A k \in 1..Len(segments) :
              /\ segments[k].startCharIndex < segments[k].endCharIndex
              /\ segments[k].endCharIndex
                   = segments[k].startCharIndex + Len(segments[k].text)
        /\ \A k \in 1..(Len(segments) - 1) :
              /\ segments[k].endCharIndex = segments[k + 1].startCharIndex
              /\ segments[k].startCharIndex < segments[k + 1].startCharIndex

\* each segment's text is the utterance's text between the segment's offsets
SubstringOK(utterance) ==
    LET segments == getUtteranceSegments(utterance)
    IN  \A k \in 1..Len(segments) :
           /\ segments[k].endCharIndex <= Len(utterance.text)
           /\ segments[k].text = Substring(utterance.text, segments[k].startCharIndex,
                                           segments[k].endCharIndex)

\* C15 as stated: after any sequence of edit operations every non-deleted
\* utterance's segment list is sorted by startCharIndex, starts at 0, is
\* contiguous, has start < end in every segment, and each segment's text is
\* the substring of the original text at [startCharIndex, endCharIndex).
C15_StructureAlways ==
    \A i \in 1..Len(utterances) :
       ~IsDeleted(utterances[i])
          => Structured(utterances[i]) /\ SubstringOK(utterances[i])

\* C15 amended: the list is always sorted, starts at 0, is contiguous and
\* has start < end = start + len(text) in every segment; that each text is
\* the substring of the original text at its offsets is preserved by every
\* operation other than deleteSegment, which moves the remaining segments to
\* offsets counted from 0.
C15_StructurePreserved ==
    /\ [](\A i \in 1..Len(utterances) : Structured(utterances[i]))
    /\ [][\A i \in 1..Len(utterances) :
             (/\ SubstringOK(utterances[i])
              /\ ~(/\ lastOp'.op = "handleDeleteSegment"
                    /\ lastOp'.utteranceId = utterances[i].id))
             => SubstringOK(utterances[i])']_vars

\* deleteSegment removed a segment of three or more and the remaining ones,
\* moved to offsets from 0, no longer lie at their place in the original text
C15_Witness ==
    /\ lastOp.op = "handleDeleteSegment"
    /\ lastOp.prevSegs >= 3
    /\ \E u \in LastUtterance :
          /\ Len(getUtteranceSegments(u)) >= 2
          /\ Structured(u)
          /\ ~SubstringOK(u)

\* C16: the adjacent-same-speaker merge is applied after deleteSegment too:
\* after a segment whose two neighbours share a speaker is deleted, the
\* stored list has the neighbours merged and holds no two consecutive
\* segments of one speaker.
C16_MergeAfterDeleteSegment ==
    lastOp.op = "handleDeleteSegment"
       => \A u \in LastUtterance : NoAdjacentSameSpeaker(getUtteranceSegments(u))

\* C17: deleteSegment that removes the last remaining segment of an
\* utterance stores the empty-segments sentinel for it, so that the
\* utterance is deleted; it does not remove the edit.
C17_LastSegmentStoresSentinel ==
    (lastOp.op = "handleDeleteSegment" /\ lastOp.prevSegs = 1)
       => \A u \in LastUtterance : IsDeleted(u)

\* C18: deleteSegment that leaves at least one segment returns the remaining
\* segments in their previous order with speakers and texts unchanged and
\* offsets recomputed: the first starts at 0, each ends at its start plus the
\* length of its text, and each starts where the one before it ends.
C18_DeleteSegmentReindex ==
    [][\A i \in 1..Len(utterances), segIndex \in SegIndices :
          LET u == utterances[i]
              pre == getUtteranceSegments(u)
              post == getUtteranceSegments(u)'
          IN  (/\ FindEdit(utteranceEdits, u.id) # 0
               /\ Len(pre) >= 2
               /\ handleDeleteSegment(u.id, segIndex))
              => /\ Len(post) = Len(pre) - 1
                 /\ \A k \in 1..Len(post) :
                       LET from == IF k <= segIndex THEN k ELSE k + 1
                       IN  /\ post[k].speaker = pre[from].speaker
                           /\ post[k].speakerLabel = pre[from].speakerLabel
                           /\ post[k].text = pre[from].text
                           /\ post[k].startCharIndex =
                                 (IF k = 1 THEN 0 ELSE post[k - 1].endCharIndex)
                           /\ post[k].endCharIndex
                                 = post[k].startCharIndex + Len(post[k].text)]_vars

\* deleteSegment took a segment out of three or more and left its two
\* neighbours, which have one speaker, side by side in the stored list
C18_Witness ==
    /\ lastOp.op = "handleDeleteSegment"
    /\ lastOp.prevSegs >= 3
    /\ \E u \in LastUtterance :
          LET segments == getUtteranceSegments(u)
          IN  /\ Len(segments) = lastOp.prevSegs - 1
              /\ segments[1].speaker = segments[2].speaker
              /\ segments[1].startCharIndex = 0
              /\ segments[2].startCharIndex = Len(segments[1].text)

\* the positions of a list at which a run of one speaker begins
RunStarts(allSegments) ==
    {k \in 1..Len(allSegments) :
        k = 1 \/ allSegments[k].speaker # allSegments[k - 1].speaker}

\* the position at which the j-th run begins
RunStart(allSegments, j) ==
    CHOOSE k \in RunStarts(allSegments) :
       Cardinality({m \in RunStarts(allSegments) : m <= k}) = j

\* the position at which the j-th run ends
RunEnd(allSegments, j) ==
    IF j = Cardinality(RunStarts(allSegments)) THEN Len(allSegments)
    ELSE RunStart(allSegments, j + 1) - 1

\* C19: consecutive rendered segments of one speaker, of one utterance or of
\* several, become one rendered segment whose text is their texts joined
\* with a single space, whose startMs is that of the first contributing
\* utterance and whose endMs is that of the last; the segments of one
\* utterance all carry that utterance's startMs and endMs.
C19_CrossUtteranceMerge ==
    LET allSegments == AllSegments(utterances, utteranceEdits)
        merged == processedSegments
    IN  /\ Len(merged) = Cardinality(RunStarts(allSegments))
        /\ \A j \in 1..Len(merged) :
              LET first == RunStart(allSegments, j)
                  last == RunEnd(allSegments, j)
              IN  /\ merged[j].speaker = allSegments[first].speaker
                  /\ merged[j].startMs = allSegments[first].startMs
                  /\ merged[j].endMs = allSegments[last].endMs
                  /\ merged[j].text =
                        JoinSpace([k \in 1..(last - first + 1) |->
                                     allSegments[first + k - 1].text])
        /\ \A i \in 1..Len(utterances) :
              LET own == UtteranceRendered(utterances[i], utteranceEdits)
              IN  \A k \in 1..Len(own) :
                     /\ own[k].startMs = utterances[i].startMs
                     /\ own[k].endMs = utterances[i].endMs

\* an edit made the end of one utterance and the start of the next have one
\* speaker, and a rendered segment runs from the first utterance's start to
\* the second one's end
C19_Witness ==
    /\ utteranceEdits # <<>>
    /\ Len(utterances) = 2
    /\ utterances[1].speaker # utterances[2].speaker
    /\ \E j \in 1..Len(processedSegments) :
          /\ processedSegments[j].startMs = utterances[1].startMs
          /\ processedSegments[j].endMs = utterances[2].endMs
    /\ Len(processedSegments) >= 2

\* C20: each rendered segment produces at least one document line; exactly
\* the first line of each rendered segment carries the segment's speaker,
\* speakerLabel and timestamp with isContinuation = false, and every further
\* line of the segment has isContinuation = true and none of the three.
C20_FirstLinePrefixFields ==
    LET segments == processedSegments
        lines == processSegmentsIntoLines(segments)
        firsts == {k \in 1..Len(lines) : ~lines[k].isContinuation}
    IN  /\ Cardinality(firsts) = Len(segments)
        /\ lines # <<>> => 1 \in firsts
        /\ \A k \in 1..Len(lines) :
              IF k \in firsts
              THEN LET segment == segments[Cardinality({m \in firsts : m <= k})]
                   IN  /\ lines[k].speaker = segment.speaker
                       /\ lines[k].speakerLabel = segment.speakerLabel
                       /\ lines[k].timestamp = formatTimestamp(segment.startMs)
              ELSE /\ UNDEFINED = lines[k].speaker
                   /\ UNDEFINED = lines[k].speakerLabel
                   /\ UNDEFINED = lines[k].timestamp

\* a rendered segment of three or more lines, and a first line that carries
\* the label an edit gave to its speaker
C20_Witness ==
    LET lines == documentLines
    IN  /\ \E k \in 1..(Len(lines) - 1) :
              lines[k].isContinuation /\ lines[k + 1].isContinuation
        /\ \E k \in 1..Len(lines) :
              ~lines[k].isContinuation /\ lines[k].speakerLabel # NULL
        /\ \E k \in 1..Len(lines) :
              ~lines[k].isContinuation /\ lines[k].speakerLabel = NULL

\* the largest n in 0..Len(words) whose first n words, joined with single
\* spaces, have at most width characters
LongestFit(words, width) ==
    LET fits == {n \in 0..Len(words) : Len(JoinSpace(SubSeq(words, 1, n))) <= width}
    IN  CHOOSE n \in fits : \A m \in fits : m <= n

\* the words packed into lines of at most width characters, each line taking
\* as many of the next words as fit and at least one
RECURSIVE GreedyLines(_, _)
GreedyLines(words, width) ==
    IF words = <<>> THEN <<>>
    ELSE LET n == Max(1, LongestFit(words, width))
         IN  <<JoinSpace(SubSeq(words, 1, n))>>
             \o GreedyLines(SubSeq(words, n + 1, Len(words)), width)

\* C21: the first line of a rendered segment holds the longest prefix of the
\* segment's words whose space-joined length is at most
\* max(charsPerLine - len(prefix), 30); each following line holds the longest
\* run of the next words whose space-joined length is at most charsPerLine
\* (a word that fits on no line stands alone on its line).
C21_GreedyPacking ==
    LET segments == processedSegments
    IN  \A j \in 1..Len(segments) :
           LET out == DocumentLinesOf(segments[j], 1)
               words == SplitSpace(segments[j].text)
               width == Max(CHARS_PER_LINE - Len(LinePrefix(segments[j])),
                            MIN_FIRST_LINE_CHARS)
               n == LongestFit(words, width)
           IN  /\ out[1].text = JoinSpace(SubSeq(words, 1, n))
               /\ [k \in 1..(Len(out) - 1) |-> out[k + 1].text]
                    = GreedyLines(SubSeq(words, n + 1, Len(words)), CHARS_PER_LINE)

\* C22: a partial or whole-utterance reassignment that names an utterance id
\* the transcript does not hold leaves the edit store as it was.
C22_UnknownUtteranceRejected ==
    [][(/\ lastOp'.op \in {"handlePartialSpeakerChange",
                           "handleEntireSegmentSpeakerChange"}
        /\ \A i \in 1..Len(utterances) : utterances[i].id # lastOp'.utteranceId)
       => utteranceEdits' = utteranceEdits]_vars

\* a reassignment was called with an id that is not in the transcript while
\* the store held edits of both utterances
C22_Witness ==
    /\ lastOp.op \in {"handlePartialSpeakerChange", "handleEntireSegmentSpeakerChange"}
    /\ lastOp.utteranceId = Ghost
    /\ Len(utterances) = 2
    /\ Len(utteranceEdits) = 2

\* C23: after revert(u) from any state get(u) is the trivial single segment
\* (original speaker, full text, offsets 0..len) and the edited count has
\* dropped by one if u had an edit; after revertAll the edited count is 0 and
\* get is the trivial single segment for every utterance.
C23_RevertAndClearAll ==
    [][/\ \A i \in 1..Len(utterances) :
             handleRevertUtterance(utterances[i].id)
             => /\ getUtteranceSegments(utterances[i])'
                     = <<[text |-> utterances[i].text,
                          speaker |-> utterances[i].speaker,
                          speakerLabel |-> utterances[i].speakerLabel,
                          startCharIndex |-> 0,
                          endCharIndex |-> Len(utterances[i].text)]>>
                /\ editCount' = editCount
                     - (IF \E k \in 1..Len(utteranceEdits) :
                              utteranceEdits[k].utteranceId = utterances[i].id
                        THEN 1 ELSE 0)
       /\ ClearEdits
             => /\ editCount' = 0
                /\ \A i \in 1..Len(utterances) :
                      getUtteranceSegments(utterances[i])'
                         = DefaultSegments(utterances[i])]_vars

\* an utterance that was split into several segments was reverted while the
\* other utterance stays edited
C23_Witness ==
    /\ lastOp.op = "handleRevertUtterance"
    /\ lastOp.prevSegs >= 2
    /\ FindEdit(utteranceEdits, lastOp.utteranceId) = 0
    /\ editCount = 1

\* the utterance with the k-th smallest sequenceIndex
BySequenceIndex(k) ==
    LET us == {utterances[i] : i \in 1..Len(utterances)}
    IN  CHOOSE u \in us :
           Cardinality({v \in us : v.sequenceIndex < u.sequenceIndex}) = k - 1

\* the speakers and texts an utterance contributes: those of its segments in
\* ascending startCharIndex, or its own when it has no segments
InStartOrder(utterance) ==
    LET segments == getUtteranceSegments(utterance)
        at(m) == CHOOSE i \in 1..Len(segments) :
                    Cardinality({j \in 1..Len(segments) :
                                   segments[j].startCharIndex
                                      < segments[i].startCharIndex}) = m - 1
    IN  IF segments = <<>> THEN <<<<utterance.speaker, utterance.text>>>>
        ELSE [m \in 1..Len(segments) |->
                <<segments[at(m)].speaker, segments[at(m)].text>>]

\* C24: the rendered-segment stream lists the utterances in ascending
\* sequenceIndex and the segments of one utterance in ascending
\* startCharIndex, whatever the order in which the rows of the utterances are
\* stored and the edits were created.
C24_FlatteningOrder ==
    LET allSegments == AllSegments(utterances, utteranceEdits)
    IN  [k \in 1..Len(allSegments) |-> <<allSegments[k].speaker, allSegments[k].text>>]
           = Concat([k \in 1..Len(utterances) |-> InStartOrder(BySequenceIndex(k))])

\* both utterances are split, the second one first, and the rows of the
\* transcript are stored in reverse order
C24_Witness ==
    /\ utterances = utterancesWithLabels(<<U2a, U1>>)
    /\ Len(utteranceEdits) = 2
    /\ utteranceEdits[1].utteranceId = "u2"
    /\ Len(utteranceEdits[1].segments) >= 2
    /\ Len(utteranceEdits[2].segments) >= 2

C27_StoredOnce ==
    /\ Len(db.transcripts) <= 1
    /\ \A a \in 1..Len(db.utterances) :
          \A b \in 1..Len(db.utterances) :
             db.utterances[a].sequenceIndex = db.utterances[b].sequenceIndex
                => a = b

\* C26: whenever handlePartialSpeakerChange or handleSegmentSpeakerChange
\* removes an utterance's edit from the store as a no-op collapse, the
\* segment list the handler had computed covers the utterance's full original
\* text, so that text removed by deleteSegment does not reappear.
C26_CollapseCoversOriginal ==
    [][\A i \in 1..Len(utterances) :
          LET u == utterances[i]
              existingEdit == FindEdit(utteranceEdits, u.id)
              stored == utteranceEdits[existingEdit].segments
          IN  (existingEdit # 0 /\ FindEdit(utteranceEdits', u.id) = 0)
              => /\ \A s \in Offsets, e \in Offsets, sp \in Speakers :
                       handlePartialSpeakerChange(u.id, s, e, sp, LabelFor(sp))
                       => SegmentsText(MergeSegments(
                             SplitSegments(stored, 0, s, e, sp, LabelFor(sp))))
                            = u.text
                 /\ \A k \in SegIndices, sp \in Speakers :
                       handleSegmentSpeakerChange(u.id, k, sp, LabelFor(sp))
                       => SegmentsText(MergeSegments(
                             [stored EXCEPT ![k + 1] =
                                [@ EXCEPT !.speaker = sp,
                                          !.speakerLabel = LabelFor(sp)]]))
                            = u.text]_vars

\* C28: the first document line of a rendered segment with non-empty text
\* has non-empty text: a first word wider than the first line's width
\* max(charsPerLine - len(prefix), 30) is still placed on the prefixed line.
C28_FirstLineNonEmpty ==
    LET segments == processedSegments
    IN  \A j \in 1..Len(segments) :
           segments[j].text # <<>>
              => DocumentLinesOf(segments[j], 1)[1].text # <<>>

\* C29: after any sequence of edit operations the edit store holds at most
\* one UtteranceEdit per utterance id.
C29_OneEditPerUtterance ==
    \A i \in 1..Len(utteranceEdits) :
       \A j \in 1..Len(utteranceEdits) :
          utteranceEdits[i].utteranceId = utteranceEdits[j].utteranceId => i = j

\* an utterance that already had an edit of several segments was deleted
\* while the other utterance has an edit too
C29_Witness ==
    /\ lastOp.op = "handleDeleteUtterance"
    /\ lastOp.prevSegs >= 2
    /\ Len(utteranceEdits) = 2
    /\ utteranceEdits[2].utteranceId = lastOp.utteranceId
    /\ utteranceEdits[2].segments = <<>>

\* the handlers that act on one utterance
SingleUtteranceOps ==
    {"handlePartialSpeakerChange", "handleEntireSegmentSpeakerChange",
     "handleSegmentSpeakerChange", "handleDeleteSegment",
     "handleDeleteUtterance", "handleRevertUtterance"}

\* C30: every single-utterance edit operation on utterance u leaves the
\* stored segments of every other utterance unchanged, and never changes any
\* utterance's original text, speaker or timing.
C30_FrameCondition ==
    [][lastOp'.op \in SingleUtteranceOps
       => /\ utterances' = utterances
          /\ \A i \in 1..Len(utterances) :
                utterances[i].id # lastOp'.utteranceId
                => LET before == FindEdit(utteranceEdits, utterances[i].id)
                       after == FindEdit(utteranceEdits', utterances[i].id)
                   IN  /\ (before = 0) = (after = 0)
                       /\ before # 0
                          => utteranceEdits'[after].segments
                               = utteranceEdits[before].segments]_vars

\* a per-segment handler changed the edit of one utterance while the other
\* utterance holds an edit of several segments
C30_Witness ==
    /\ lastOp.op \in {"handleSegmentSpeakerChange", "handleDeleteSegment"}
    /\ lastOp.prevSegs >= 2
    /\ Len(utteranceEdits) = 2
    /\ \E k \in 1..2 :
          /\ utteranceEdits[k].utteranceId # lastOp.utteranceId
          /\ Len(utteranceEdits[k].segments) >= 2
    /\ \E k \in 1..2 :
          /\ utteranceEdits[k].utteranceId = lastOp.utteranceId
          /\ Len(utteranceEdits[k].segments) < lastOp.prevSegs

\* typing of the state
TypeOK ==
    /\ utterances \in Transcripts \cup DocTranscripts
    /\ \A i \in 1..Len(utteranceEdits) :
          utteranceEdits[i].utteranceId \in UtteranceIds
    /\ Len(pages) <= Len(documentLines)

=============================================================================
